---- MODULE Spec2Model ----
(***************************************************************************)
(* Model of the runtime orchestration core of anthill/app.py: App.start,   *)
(* App._start (merge and filter of the subscriptions, initialisation of    *)
(* the bus client, merge of the one-shot tasks) and App._start_tasks       *)
(* (validation and scheduling under the 'asyncio' and 'sync' strategies).  *)
(***************************************************************************)
EXTENDS Naturals, Sequences, FiniteSets

VARIABLES
    pc,                              \* position of the caller inside start/_start/_start_tasks
    app_strategy,                    \* self.app_strategy
    http_server,                     \* self.http_server is not None
    SUBSCRIPTIONS,                   \* self.SUBSCRIPTIONS, the static registry (updated in place)
    declared,                        \* self.SUBSCRIPTIONS as it was when start() was called
    subscribe_topics_and_callbacks,  \* self.subscribe_topics_and_callbacks
    listen_topic_only_if_include,    \* self.listen_topic_only_if_include (None or a list)
    listen_topics_callbacks,         \* self.nats_config['listen_topics_callbacks'] (None or a dict)
    TASKS,                           \* self.TASKS, the statically declared one-shot tasks
    ctor_tasks,                      \* the list the caller passed as tasks=
    tasks,                           \* self.tasks
    INTERVAL_TASKS,                  \* self.INTERVAL_TASKS, in key iteration order
    interval_tasks,                  \* self.interval_tasks
    idx,                             \* index of the running for loop
    loop_tasks,                      \* the units on the event loop, in creation order
    gathered,                        \* the local `tasks` of _start_tasks: asyncio.all_tasks(loop)
    threads,                         \* the targets given to start_thread by _start_tasks
    slept,                           \* time.sleep(1) has returned
    http_started,                    \* http_server.start_server() has been called
    start_thread_arg,                \* arguments start() itself gave to start_thread
    error,                           \* the exception that left _start, or "none"
    subscribed,                      \* topics the bus client registered with the bus
    response,                        \* outcome of the latest request sent over the bus
    client_id_arg,                   \* the client_id given to __init__ (None or a str)
    service_name,                    \* the service_name given to __init__
    hostname,                        \* os.environ.get('HOSTNAME') (None or a str)
    draws,                           \* the values random.randint returned, in call order
    client_id,                       \* self.nats_config['client_id'] (None before __init__)
    env_client_id,                   \* os.environ.get('CLIENT_ID') (None or a str)
    client_strategy,                 \* self.nats_config['client_strategy']
    nats_keys,                       \* the keys of self.nats_config
    bus_reachable                    \* NATSClient.__init__ will manage to connect

vars == <<pc, app_strategy, http_server, SUBSCRIPTIONS, declared, subscribe_topics_and_callbacks,
          listen_topic_only_if_include, listen_topics_callbacks, TASKS, ctor_tasks, tasks,
          INTERVAL_TASKS, interval_tasks, idx, loop_tasks, gathered, threads, slept,
          http_started, start_thread_arg, error, subscribed, response, client_id_arg,
          service_name, hostname, draws, client_id, env_client_id, client_strategy, nats_keys,
          bus_reachable>>

config_vars == <<app_strategy, http_server, declared, subscribe_topics_and_callbacks,
                 listen_topic_only_if_include, TASKS, ctor_tasks, INTERVAL_TASKS,
                 client_id_arg, service_name, hostname, draws, client_id, env_client_id,
                 client_strategy, nats_keys, bus_reachable>>

(***************************************************************************)
(* Bounds of the model.                                                    *)
(***************************************************************************)
MaxTasks == 2
MaxStaticTasks == 1
MaxIntervals == 2
MaxPerInterval == 1
MaxRunTasks == 1
MaxBusUnits == 1
MaxStaticTopics == 3
MaxDynamicTopics == 1
MaxFilter == 2

(***************************************************************************)
(* Python values.  None is the empty tuple and a present value v is <<v>>.  *)
(***************************************************************************)
None == <<>>
Some(v) == <<v>>
IsNone(o) == o = <<>>
Value(o) == o[1]

\* str values are sequences of characters
start == <<"s", "t", "a", "r", "t">>
foo == <<"f", "o", "o">>
bar == <<"b", "a", "r">>
foo_x == <<"f", "o", "o", ".", "x">>
TopicNames == {start, foo, bar, foo_x}
FilterWords == {foo, bar, <<"t">>}

\* a handler is identified by the data it returns: 1, 2, 3 are the handlers of
\* the test for 'start', 'foo' and 'bar'
StaticHandler(topic) ==
    IF topic = start THEN 1 ELSE IF topic = foo THEN 2 ELSE IF topic = bar THEN 3 ELSE 4
DynamicHandler(topic) == 10 + StaticHandler(topic)

Strategies == {"asyncio", "sync", "async"}

\* a callable: its identity and what asyncio.iscoroutinefunction says of it
Callable(src, n, c) == [src |-> src, n |-> n, coro |-> c]

SeqsUpTo(S, n) == UNION {[1..len -> S] : len \in 0..n}

TaskLists(src, max) ==
    {[i \in 1..Len(f) |-> Callable(src, i, f[i])] : f \in SeqsUpTo(BOOLEAN, max)}

\* the interval mapping as the sequence of its items in iteration order
IntervalKeys(maxKeys) == 1..maxKeys
IntervalEntry(key, flags) ==
    [interval |-> key,
     tasks |-> [j \in 1..Len(flags) |-> Callable("INTERVAL_TASKS", 10 * key + j, flags[j])]]
IntervalLists(maxPer) == SeqsUpTo(BOOLEAN, maxPer) \ {<<>>}
IntervalDicts(maxKeys, maxPer) ==
    {[i \in 1..Len(ks) |-> IntervalEntry(ks[i], fl[ks[i]])] :
        ks \in {s \in SeqsUpTo(IntervalKeys(maxKeys), maxKeys) :
                    \A a, b \in 1..Len(s) : a # b => s[a] # s[b]},
        fl \in [IntervalKeys(maxKeys) -> IntervalLists(maxPer)]}

Dicts(keys, max, H(_)) ==
    {[t \in T |-> H(t)] : T \in {T \in SUBSET keys : Cardinality(T) <= max}}

(***************************************************************************)
(* App._start, lines 150-160: merge and filter of the subscriptions.       *)
(***************************************************************************)
\* an update in which the entries already present are kept
Update_StaticWins(d, other) ==
    [t \in DOMAIN d \cup DOMAIN other |-> IF t \in DOMAIN d THEN d[t] ELSE other[t]]

\* dict.update: the entries of other replace or extend those of d
Update(d, other) ==
    [t \in DOMAIN d \cup DOMAIN other |-> IF t \in DOMAIN other THEN other[t] ELSE d[t]]

\* str.startswith in place of `in`
In_Prefix(sub, s) == Len(sub) <= Len(s) /\ SubSeq(s, 1, Len(sub)) = sub

\* Python's `sub in s` on str
In(sub, s) ==
    \E i \in 0..Len(s) : i + Len(sub) <= Len(s) /\ SubSeq(s, i + 1, i + Len(sub)) = sub

\* the inner for loop with its break: the value of `success` after it
RECURSIVE Success(_, _)
Success(include, topic) ==
    IF include = <<>> THEN FALSE
    ELSE IF In(Head(include), topic) THEN TRUE
    ELSE Success(Tail(include), topic)

\* the outer for loop without its del
FilterTopics_KeepAll(d, include) == d

\* the outer for loop over the copy, deleting the topics without success
FilterTopics(d, include) ==
    [t \in {t \in DOMAIN d : Success(include, t)} |-> d[t]]

\* topics_and_callbacks when the try block is left
BuildSubscriptions(static, dynamic, include) ==
    IF IsNone(include) THEN Update(static, dynamic)
    ELSE FilterTopics(Update(static, dynamic), Value(include))

(***************************************************************************)
(* App._start, line 171, and the checks of App._start_tasks.               *)
(***************************************************************************)
\* self.TASKS + self.tasks
MergeTasks_StaticFirst(selfTasks, staticTasks) == staticTasks \o selfTasks

\* self.tasks + self.TASKS
MergeTasks(selfTasks, staticTasks) == selfTasks \o staticTasks

RECURSIVE Flatten(_)
\* the order in which the nested for loops over self.interval_tasks visit the callables
Flatten(intervals) ==
    IF intervals = <<>> THEN <<>>
    ELSE Head(intervals).tasks \o Flatten(Tail(intervals))

\* not asyncio.iscoroutinefunction(coro)
RejectedByAsyncio(c) == ~c.coro
\* the 'sync' branch without its check
RejectedBySync_Never(c) == FALSE

\* asyncio.iscoroutinefunction(task)
RejectedBySync(c) == c.coro

Unit(owner, c) == [owner |-> owner, target |-> c, state |-> "pending"]
BusUnit(n) == Unit("bus", Callable("NATSClient", n, TRUE))

\* asyncio.all_tasks(loop): the units of the loop that are not done
AllTasks(units) == {i \in 1..Len(units) : units[i].state = "pending"}

Thread(c) == [target |-> c, state |-> "running"]

\* start_server() without the `if self.http_server:`
StartServer_Always(configured) == TRUE

\* `if self.http_server:` before start_server()
StartServer(configured) == configured

(***************************************************************************)
(* App.__init__, lines 72-92, and App._create_client_code_by_hostname.     *)
(***************************************************************************)
RandMin == 1
RandMax == 1000000
\* the values of random.randint(1, 1000000) the model draws
RandomSamples == {RandMin, 4207, RandMax}

DigitChars == <<"0", "1", "2", "3", "4", "5", "6", "7", "8", "9">>

RECURSIVE Str(_)
\* str(n) of a non-negative int
Str(n) == IF n < 10 THEN <<DigitChars[n + 1]>> ELSE Str(n \div 10) \o <<DigitChars[(n % 10) + 1]>>

RECURSIVE Join(_, _)
\* sep.join(parts)
Join(sep, parts) ==
    IF parts = <<>> THEN <<>>
    ELSE IF Len(parts) = 1 THEN Head(parts)
    ELSE Head(parts) \o sep \o Join(sep, Tail(parts))

Separator == <<"_", "_">>
NonDockerEnv == <<"n", "o", "n", "_", "d", "o", "c", "k", "e", "r", "_", "e", "n", "v", "_">>

\* the id without its random token
CreateClientCodeByHostname_NoToken(name, host, r1, r2) ==
    Join(Separator, <<name, IF IsNone(host) THEN NonDockerEnv \o Str(r1) ELSE Value(host)>>)

\* lines 207-212; r1 is drawn only when HOSTNAME is not in the environment
CreateClientCodeByHostname(name, host, r1, r2) ==
    Join(Separator, <<name,
                      IF IsNone(host) THEN NonDockerEnv \o Str(r1) ELSE Value(host),
                      Str(r2)>>)

\* lines 72-75
ResolveClientId(arg, name, host, r1, r2) ==
    IF IsNone(arg) THEN CreateClientCodeByHostname(name, host, r1, r2) ELSE Value(arg)

\* the calls of random.randint made by lines 72-75
Draws(arg, host, r1, r2) ==
    IF ~IsNone(arg) THEN <<>> ELSE IF IsNone(host) THEN <<r1, r2>> ELSE <<r2>>

BaseKeys == {"host", "port", "client_id", "listen_topics_callbacks", "publish_topics",
             "allow_reconnect", "queue", "max_reconnect_attempts", "reconnecting_time_wait",
             "client_strategy"}

\* num_of_queues without the `if app_strategy == 'sync':`
NatsConfigKeys_Always(strategy) == BaseKeys \cup {"num_of_queues"}

\* lines 77-90: the keys of self.nats_config
NatsConfigKeys(strategy) ==
    BaseKeys \cup (IF strategy = "sync" THEN {"num_of_queues"} ELSE {})

\* the static registry stored in nats_config by __init__ already
InitialCallbacks_Registry(static) == Some(static)

\* line 81: 'listen_topics_callbacks': None
InitialCallbacks(static) == None

\* an else in place of the elif of line 192
Branch_ElseSync(strategy) == IF strategy = "asyncio" THEN "asyncio" ELSE "sync"

\* lines 176 and 192: the branch of _start_tasks a strategy selects
Branch(strategy) ==
    IF strategy = "asyncio" THEN "asyncio" ELSE IF strategy = "sync" THEN "sync" ELSE "none"

\* _start_tasks called before NATSClient.__init__
AfterSubscriptions_SkipConnect == "merge_tasks"

\* line 167 follows line 165
AfterSubscriptions == "nats_init"

\* the error is recorded and _start_tasks goes on to the listener
AfterRejection_Continue(branch) == IF branch = "asyncio" THEN "a_http" ELSE "s_http"

\* lines 181, 186, 196, 201: the raise leaves _start_tasks, _start and start
AfterRejection(branch) == "failed"

\* start_thread(self._start): the method itself is handed over
StartThreadCalls_PassMethod(configured, calls) ==
    IF configured THEN calls ELSE Append(calls, "_start")

\* lines 143-146: the calls of start_thread made by start() once _start has returned
StartThreadCalls(configured, calls) ==
    IF configured THEN calls ELSE Append(calls, "None")

\* lines 150-160 working on a copy of the registry
Registry_Copy(static, final) == static

\* line 150: topics_and_callbacks is self.SUBSCRIPTIONS itself
Registry(static, final) == final

\* values of the model's inputs
Svc == <<"s", "v", "c">>
AppId == <<"a", "p", "p">>
Host == <<"h", "1">>
ExplicitIds == {None, Some(<<>>), Some(AppId)}
Hostnames == {None, Some(Host)}

(***************************************************************************)
(* Initial states: the App as constructed by __init__, before start().     *)
(***************************************************************************)
InitWith(strategies, statics, dynamics, includes, taskLists, ctorLists, intervalDicts) ==
    /\ pc = "start"
    /\ app_strategy \in strategies
    /\ http_server \in BOOLEAN
    /\ SUBSCRIPTIONS \in statics
    /\ declared = SUBSCRIPTIONS
    /\ subscribe_topics_and_callbacks \in dynamics
    /\ listen_topic_only_if_include \in includes
    /\ listen_topics_callbacks = InitialCallbacks(SUBSCRIPTIONS)
    /\ client_id_arg = Some(AppId)
    /\ service_name = Svc
    /\ hostname = None
    /\ draws = Draws(client_id_arg, hostname, RandMin, RandMin)
    /\ client_id = Some(ResolveClientId(client_id_arg, service_name, hostname, RandMin, RandMin))
    /\ env_client_id = client_id
    /\ client_strategy = app_strategy
    /\ nats_keys = NatsConfigKeys(app_strategy)
    /\ bus_reachable = TRUE
    /\ TASKS \in taskLists
    /\ ctor_tasks \in ctorLists
    /\ tasks = ctor_tasks
    /\ INTERVAL_TASKS \in intervalDicts
    /\ interval_tasks = <<>>
    /\ idx = 0
    /\ loop_tasks = <<>>
    /\ gathered = {}
    /\ threads = <<>>
    /\ slept = FALSE
    /\ http_started = FALSE
    /\ start_thread_arg = <<>>
    /\ error = "none"
    /\ subscribed = {}
    /\ response = None

\* the application of the test: handlers for 'start', 'foo', 'bar', filter ['foo', 'bar']
TestStatic == [t \in {start, foo, bar} |-> StaticHandler(t)]
TestInclude == Some(<<foo, bar>>)
EmptyDict == [t \in {} |-> 0]

\* small applications, run to the end
Init ==
    InitWith(Strategies, {TestStatic}, {EmptyDict}, {TestInclude},
             TaskLists("TASKS", MaxRunTasks), TaskLists("tasks", MaxRunTasks),
             IntervalDicts(1, MaxPerInterval))

\* every task configuration, on applications that are left without subscription
InitTasks ==
    InitWith(Strategies, {TestStatic, EmptyDict}, {EmptyDict}, {Some(<<>>)},
             TaskLists("TASKS", MaxStaticTasks), TaskLists("tasks", MaxTasks),
             IntervalDicts(MaxIntervals, 1))

\* every subscription configuration, with one task of each kind, valid for the strategy
InitSubs ==
    /\ InitWith(Strategies,
                Dicts(TopicNames, MaxStaticTopics, StaticHandler),
                Dicts(TopicNames, MaxDynamicTopics, DynamicHandler),
                {None} \cup {Some(f) : f \in SeqsUpTo(FilterWords, MaxFilter)},
                TaskLists("TASKS", 1), TaskLists("tasks", 1), IntervalDicts(1, 1))
    /\ TASKS = <<Callable("TASKS", 1, app_strategy # "sync")>>
    /\ ctor_tasks = <<Callable("tasks", 1, app_strategy # "sync")>>
    /\ INTERVAL_TASKS = <<IntervalEntry(1, <<app_strategy # "sync">>)>>

\* lists and interval mappings whose callables all have the same mode
TaskListsOf(src, max, coro) ==
    {[i \in 1..len |-> Callable(src, i, coro)] : len \in 0..max}
IntervalDictsOf(maxKeys, maxPer, coro) ==
    {d \in IntervalDicts(maxKeys, maxPer) :
        \A i \in 1..Len(Flatten(d)) : Flatten(d)[i].coro = coro}

\* task lists of every shape, valid for the strategy
InitOrder ==
    \E s \in Strategies :
        InitWith({s}, {TestStatic}, {EmptyDict}, {TestInclude},
                 TaskListsOf("TASKS", MaxStaticTasks, s # "sync"),
                 TaskListsOf("tasks", MaxTasks, s # "sync"),
                 IntervalDictsOf(MaxIntervals, 2, s # "sync"))

\* the process before App(...) is called: the environment and the declared registries
InitNew ==
    /\ pc = "new"
    /\ hostname \in Hostnames
    /\ bus_reachable \in BOOLEAN
    /\ SUBSCRIPTIONS = TestStatic
    /\ declared = SUBSCRIPTIONS
    /\ TASKS \in TaskLists("TASKS", 1)
    /\ INTERVAL_TASKS \in IntervalDicts(1, 1)
    /\ app_strategy = "unset"
    /\ client_strategy = "unset"
    /\ nats_keys = {}
    /\ http_server = FALSE
    /\ subscribe_topics_and_callbacks = EmptyDict
    /\ listen_topic_only_if_include = None
    /\ listen_topics_callbacks = None
    /\ client_id_arg = None
    /\ service_name = <<>>
    /\ draws = <<>>
    /\ client_id = None
    /\ env_client_id = None
    /\ ctor_tasks = <<>>
    /\ tasks = <<>>
    /\ interval_tasks = <<>>
    /\ idx = 0
    /\ loop_tasks = <<>>
    /\ gathered = {}
    /\ threads = <<>>
    /\ slept = FALSE
    /\ http_started = FALSE
    /\ start_thread_arg = <<>>
    /\ error = "none"
    /\ subscribed = {}
    /\ response = None

(***************************************************************************)
(* App.__init__, lines 71-116                                              *)
(***************************************************************************)
Construct ==
    /\ pc = "new"
    /\ \E strategy \in Strategies, web_server \in BOOLEAN, arg \in ExplicitIds,
          r1 \in RandomSamples, r2 \in RandomSamples, given \in TaskLists("tasks", 1),
          dynamic \in {EmptyDict, [t \in {foo} |-> DynamicHandler(t)]},
          include \in {None, TestInclude} :
           /\ client_id_arg' = arg
           /\ service_name' = Svc
           /\ draws' = Draws(arg, hostname, r1, r2)
           /\ client_id' = Some(ResolveClientId(arg, Svc, hostname, r1, r2))
           /\ env_client_id' = client_id'
           /\ client_strategy' = strategy
           /\ nats_keys' = NatsConfigKeys(strategy)
           /\ listen_topics_callbacks' = InitialCallbacks(SUBSCRIPTIONS)
           /\ ctor_tasks' = given
           /\ tasks' = given
           /\ app_strategy' = strategy
           /\ listen_topic_only_if_include' = include
           /\ subscribe_topics_and_callbacks' = dynamic
           /\ http_server' = web_server
    /\ pc' = "start"
    /\ UNCHANGED <<SUBSCRIPTIONS, declared, TASKS, INTERVAL_TASKS, hostname, bus_reachable,
                   interval_tasks, idx, loop_tasks, gathered, threads, slept, http_started,
                   start_thread_arg, error, subscribed, response>>

(***************************************************************************)
(* App._start                                                              *)
(***************************************************************************)
\* lines 150-165: SUBSCRIPTIONS is updated and filtered in place and stored in nats_config
StartSubscriptions ==
    /\ pc = "start"
    /\ LET final == BuildSubscriptions(SUBSCRIPTIONS, subscribe_topics_and_callbacks,
                                       listen_topic_only_if_include)
       IN  /\ SUBSCRIPTIONS' = Registry(SUBSCRIPTIONS, final)
           /\ listen_topics_callbacks' = Some(final)
    /\ pc' = AfterSubscriptions
    /\ UNCHANGED <<config_vars, tasks, interval_tasks, idx, loop_tasks, gathered, threads,
                   slept, http_started, start_thread_arg, error, subscribed, response>>

\* lines 167-169: the bus client subscribes to the topics of the configuration and,
\* under 'asyncio', may leave units of its own on the event loop; when it cannot
\* connect its error leaves __init__, _start and start
NatsInit ==
    /\ pc = "nats_init"
    /\ IF bus_reachable
       THEN /\ subscribed' = DOMAIN Value(listen_topics_callbacks)
            /\ \E n \in 0..MaxBusUnits :
                   loop_tasks' = IF app_strategy = "asyncio"
                                 THEN [i \in 1..n |-> BusUnit(i)] ELSE <<>>
            /\ pc' = "merge_tasks"
            /\ UNCHANGED error
       ELSE /\ error' = "ConnectionError"
            /\ pc' = "failed"
            /\ UNCHANGED <<subscribed, loop_tasks>>
    /\ UNCHANGED <<config_vars, SUBSCRIPTIONS, listen_topics_callbacks, tasks, interval_tasks,
                   idx, gathered, threads, slept, http_started, start_thread_arg, response>>

\* lines 171-172
StartTaskLists ==
    /\ pc = "merge_tasks"
    /\ tasks' = MergeTasks(tasks, TASKS)
    /\ interval_tasks' = INTERVAL_TASKS
    /\ pc' = "start_tasks"
    /\ UNCHANGED <<config_vars, SUBSCRIPTIONS, listen_topics_callbacks, idx, loop_tasks,
                   gathered, threads, slept, http_started, start_thread_arg, error,
                   subscribed, response>>

(***************************************************************************)
(* App._start_tasks, 'asyncio' branch                                      *)
(***************************************************************************)
\* the 'asyncio' branch without its second loop
AsyncAfterTasks_SkipIntervals == "a_http"

AsyncAfterTasks == IF Flatten(interval_tasks) = <<>> THEN "a_http" ELSE "a_intervals"
AsyncFirst == IF tasks = <<>> THEN AsyncAfterTasks ELSE "a_tasks"

\* lines 176-178: the units that are on the loop now are remembered
AsyncAllTasks ==
    /\ pc = "start_tasks"
    /\ Branch(app_strategy) = "asyncio"
    /\ gathered' = AllTasks(loop_tasks)
    /\ idx' = 0
    /\ pc' = AsyncFirst
    /\ UNCHANGED <<config_vars, SUBSCRIPTIONS, listen_topics_callbacks, tasks, interval_tasks,
                   loop_tasks, threads, slept, http_started, start_thread_arg, error,
                   subscribed, response>>

\* lines 179-182: one iteration of the loop over self.tasks
AsyncTask ==
    /\ pc = "a_tasks"
    /\ IF RejectedByAsyncio(tasks[idx + 1])
       THEN /\ error' = "InitializingTaskError"
            /\ pc' = AfterRejection("asyncio")
            /\ UNCHANGED <<loop_tasks, idx>>
       ELSE /\ loop_tasks' = Append(loop_tasks, Unit("task", tasks[idx + 1]))
            /\ idx' = IF idx + 1 = Len(tasks) THEN 0 ELSE idx + 1
            /\ pc' = IF idx + 1 = Len(tasks) THEN AsyncAfterTasks ELSE "a_tasks"
            /\ UNCHANGED error
    /\ UNCHANGED <<config_vars, SUBSCRIPTIONS, listen_topics_callbacks, tasks, interval_tasks,
                   gathered, threads, slept, http_started, start_thread_arg, subscribed,
                   response>>

\* lines 183-188: one iteration of the nested loops over self.interval_tasks
AsyncIntervalTask ==
    /\ pc = "a_intervals"
    /\ LET flat == Flatten(interval_tasks) IN
       IF RejectedByAsyncio(flat[idx + 1])
       THEN /\ error' = "InitializingIntevalTaskError"
            /\ pc' = AfterRejection("asyncio")
            /\ UNCHANGED <<loop_tasks, idx>>
       ELSE /\ loop_tasks' = Append(loop_tasks, Unit("interval", flat[idx + 1]))
            /\ idx' = IF idx + 1 = Len(flat) THEN 0 ELSE idx + 1
            /\ pc' = IF idx + 1 = Len(flat) THEN "a_http" ELSE "a_intervals"
            /\ UNCHANGED error
    /\ UNCHANGED <<config_vars, SUBSCRIPTIONS, listen_topics_callbacks, tasks, interval_tasks,
                   gathered, threads, slept, http_started, start_thread_arg, subscribed,
                   response>>

\* lines 189-190
AsyncHttp ==
    /\ pc = "a_http"
    /\ http_started' = StartServer(http_server)
    /\ pc' = "a_run"
    /\ UNCHANGED <<config_vars, SUBSCRIPTIONS, listen_topics_callbacks, tasks, interval_tasks,
                   idx, loop_tasks, gathered, threads, slept, start_thread_arg, error,
                   subscribed, response>>

\* line 191: the loop starts to run, the caller waits for the gather of `tasks`
AsyncRunUntilComplete ==
    /\ pc = "a_run"
    /\ pc' = "wait"
    /\ UNCHANGED <<config_vars, SUBSCRIPTIONS, listen_topics_callbacks, tasks, interval_tasks,
                   idx, loop_tasks, gathered, threads, slept, http_started, start_thread_arg,
                   error, subscribed, response>>

(***************************************************************************)
(* App._start_tasks, 'sync' branch                                         *)
(***************************************************************************)
\* the 'sync' branch without its second loop
SyncAfterTasks_SkipIntervals == "s_http"

SyncAfterTasks == IF Flatten(interval_tasks) = <<>> THEN "s_http" ELSE "s_intervals"
SyncFirst == IF tasks = <<>> THEN SyncAfterTasks ELSE "s_tasks"

\* lines 192-193
SyncSleep ==
    /\ pc = "start_tasks"
    /\ Branch(app_strategy) = "sync"
    /\ slept' = TRUE
    /\ idx' = 0
    /\ pc' = SyncFirst
    /\ UNCHANGED <<config_vars, SUBSCRIPTIONS, listen_topics_callbacks, tasks, interval_tasks,
                   loop_tasks, gathered, threads, http_started, start_thread_arg, error,
                   subscribed, response>>

\* lines 194-197: one iteration of the loop over self.tasks
SyncTask ==
    /\ pc = "s_tasks"
    /\ IF RejectedBySync(tasks[idx + 1])
       THEN /\ error' = "InitializingIntevalTaskError"
            /\ pc' = AfterRejection("sync")
            /\ UNCHANGED <<threads, idx>>
       ELSE /\ threads' = Append(threads, Thread(tasks[idx + 1]))
            /\ idx' = IF idx + 1 = Len(tasks) THEN 0 ELSE idx + 1
            /\ pc' = IF idx + 1 = Len(tasks) THEN SyncAfterTasks ELSE "s_tasks"
            /\ UNCHANGED error
    /\ UNCHANGED <<config_vars, SUBSCRIPTIONS, listen_topics_callbacks, tasks, interval_tasks,
                   loop_tasks, gathered, slept, http_started, start_thread_arg, subscribed,
                   response>>

\* lines 198-203: one iteration of the nested loops over self.interval_tasks
SyncIntervalTask ==
    /\ pc = "s_intervals"
    /\ LET flat == Flatten(interval_tasks) IN
       IF RejectedBySync(flat[idx + 1])
       THEN /\ error' = "InitializingIntevalTaskError"
            /\ pc' = AfterRejection("sync")
            /\ UNCHANGED <<threads, idx>>
       ELSE /\ threads' = Append(threads, Thread(flat[idx + 1]))
            /\ idx' = IF idx + 1 = Len(flat) THEN 0 ELSE idx + 1
            /\ pc' = IF idx + 1 = Len(flat) THEN "s_http" ELSE "s_intervals"
            /\ UNCHANGED error
    /\ UNCHANGED <<config_vars, SUBSCRIPTIONS, listen_topics_callbacks, tasks, interval_tasks,
                   loop_tasks, gathered, slept, http_started, start_thread_arg, subscribed,
                   response>>

\* lines 204-205, after which _start_tasks and _start return
SyncHttp ==
    /\ pc = "s_http"
    /\ http_started' = StartServer(http_server)
    /\ pc' = "ret"
    /\ UNCHANGED <<config_vars, SUBSCRIPTIONS, listen_topics_callbacks, tasks, interval_tasks,
                   idx, loop_tasks, gathered, threads, slept, start_thread_arg, error,
                   subscribed, response>>

\* lines 176 and 192: neither branch is taken, _start_tasks returns
NoBranch ==
    /\ pc = "start_tasks"
    /\ Branch(app_strategy) = "none"
    /\ pc' = "ret"
    /\ UNCHANGED <<config_vars, SUBSCRIPTIONS, listen_topics_callbacks, tasks, interval_tasks,
                   idx, loop_tasks, gathered, threads, slept, http_started, start_thread_arg,
                   error, subscribed, response>>

(***************************************************************************)
(* App.start, lines 142-146: what follows the return of _start             *)
(***************************************************************************)
StartReturn ==
    /\ pc = "ret"
    /\ start_thread_arg' = StartThreadCalls(http_server, start_thread_arg)
    /\ pc' = "done"
    /\ UNCHANGED <<config_vars, SUBSCRIPTIONS, listen_topics_callbacks, tasks, interval_tasks,
                   idx, loop_tasks, gathered, threads, slept, http_started, error, subscribed,
                   response>>

(***************************************************************************)
(* The event loop while run_until_complete on the gather of `tasks` is waiting, the *)
(* launched threads, and the bus.                                          *)
(***************************************************************************)
\* a unit on the running loop returns or raises
UnitEnds(i) ==
    /\ pc = "wait"
    /\ loop_tasks[i].state = "pending"
    /\ \E outcome \in {"done", "failed"} :
           loop_tasks' = [loop_tasks EXCEPT ![i].state = outcome]
    /\ UNCHANGED <<pc, config_vars, SUBSCRIPTIONS, listen_topics_callbacks, tasks,
                   interval_tasks, idx, gathered, threads, slept, http_started,
                   start_thread_arg, error, subscribed, response>>

\* the gather of `tasks` without return_exceptions: the first exception of a gathered unit
\* is the exception of run_until_complete
GatherRaises(units, waited) == \E i \in waited : units[i].state = "failed"
GatherReturns(units, waited) == \A i \in waited : units[i].state = "done"

\* line 191 returns: the loop stops, _start_tasks and _start return
WaitReturns ==
    /\ pc = "wait"
    /\ GatherReturns(loop_tasks, gathered)
    /\ pc' = "ret"
    /\ UNCHANGED <<config_vars, SUBSCRIPTIONS, listen_topics_callbacks, tasks, interval_tasks,
                   idx, loop_tasks, gathered, threads, slept, http_started, start_thread_arg,
                   error, subscribed, response>>

\* line 191 raises: the loop stops, the exception leaves _start_tasks, _start and start
WaitRaises ==
    /\ pc = "wait"
    /\ GatherRaises(loop_tasks, gathered)
    /\ error' = "UnitError"
    /\ pc' = "failed"
    /\ UNCHANGED <<config_vars, SUBSCRIPTIONS, listen_topics_callbacks, tasks, interval_tasks,
                   idx, loop_tasks, gathered, threads, slept, http_started, start_thread_arg,
                   subscribed, response>>

\* a launched thread runs to its end
ThreadEnds(i) ==
    /\ threads[i].state = "running"
    /\ threads' = [threads EXCEPT ![i].state = "finished"]
    /\ UNCHANGED <<pc, config_vars, SUBSCRIPTIONS, listen_topics_callbacks, tasks,
                   interval_tasks, idx, loop_tasks, gathered, slept, http_started,
                   start_thread_arg, error, subscribed, response>>

\* the reply to a request on a topic: the data of the handler the bus client was
\* configured with, or a delivery error when nobody is subscribed to the topic
Reply(topic, topics, callbacks) ==
    IF topic \in topics
    THEN [topic |-> topic, delivered |-> TRUE, data |-> callbacks[topic]]
    ELSE [topic |-> topic, delivered |-> FALSE, data |-> 0]

\* a client sends a request once the application serves messages
Serving ==
    \/ app_strategy = "asyncio" /\ pc = "wait"
    \/ app_strategy # "asyncio" /\ pc = "done"

Request(topic) ==
    /\ Serving
    /\ response' = Some(Reply(topic, subscribed, Value(listen_topics_callbacks)))
    /\ UNCHANGED <<pc, config_vars, SUBSCRIPTIONS, listen_topics_callbacks, tasks,
                   interval_tasks, idx, loop_tasks, gathered, threads, slept, http_started,
                   start_thread_arg, error, subscribed>>

(***************************************************************************)
(* Specifications                                                          *)
(***************************************************************************)
Startup ==
    \/ StartSubscriptions
    \/ NatsInit
    \/ StartTaskLists
    \/ AsyncAllTasks
    \/ AsyncTask
    \/ AsyncIntervalTask
    \/ AsyncHttp
    \/ AsyncRunUntilComplete
    \/ SyncSleep
    \/ SyncTask
    \/ SyncIntervalTask
    \/ SyncHttp
    \/ NoBranch
    \/ StartReturn

Running ==
    \/ \E i \in 1..Len(loop_tasks) : UnitEnds(i)
    \/ WaitReturns
    \/ WaitRaises
    \/ \E i \in 1..Len(threads) : ThreadEnds(i)

Next == Startup \/ Running \/ \E topic \in TopicNames : Request(topic)

NextTasks == Startup

NextSubs == Startup \/ \E topic \in TopicNames : Request(topic)

\* small applications from start() to the end of the wait
Spec == Init /\ [][Next]_vars

\* start() up to the wait, over the task configurations
SpecTasks == InitTasks /\ [][NextTasks]_vars

\* start() up to the wait and the requests served then, over the subscription configurations
SpecSubs == InitSubs /\ [][NextSubs]_vars

\* start() up to the wait, over the shapes of the task lists
SpecOrder == InitOrder /\ [][NextTasks]_vars

NextNew == Construct \/ Startup

\* App(...) and start() up to the wait, over the constructor's arguments and the environment
SpecNew == InitNew /\ [][NextNew]_vars

(***************************************************************************)
(* Vocabulary of the properties                                            *)
(***************************************************************************)
ConfigurationErrors == {"InitializingTaskError", "InitializingIntevalTaskError"}

\* the units _start_tasks itself handed to loop.create_task
OrchestratorUnits == {i \in 1..Len(loop_tasks) : loop_tasks[i].owner # "bus"}

IsOneShotUnit(u) == u.owner = "task"
IsOneShotThread(t) == t.target.src \in {"TASKS", "tasks"}

Targets(seq) == [i \in 1..Len(seq) |-> seq[i].target]

\* the callables handed to loop.create_task or start_thread by _start_tasks, in order
Scheduled == Targets(SelectSeq(loop_tasks, LAMBDA u : u.owner # "bus")) \o Targets(threads)

\* the one-shot tasks among them
OneShotScheduled ==
    Targets(SelectSeq(loop_tasks, IsOneShotUnit)) \o Targets(SelectSeq(threads, IsOneShotThread))

IsPrefix(a, b) == Len(a) <= Len(b) /\ SubSeq(b, 1, Len(a)) = a

\* self.tasks holds the merged list
Merged == pc \notin {"start", "nats_init", "merge_tasks"}

(***************************************************************************)
(* Properties                                                              *)
(***************************************************************************)
\* C1: when _start_tasks has raised a configuration error, no coroutine has been
\* handed to loop.create_task and no thread has been launched with start_thread.
C1_NothingStartedWhenRejected ==
    error \in ConfigurationErrors => OrchestratorUnits = {} /\ threads = <<>>

\* C2: under 'asyncio' the wait of line 191 covers every unit on the loop, the
\* bus client's and the orchestrator's own, and it has not returned while one
\* of them is still pending.
C2_WaitCoversEveryUnit ==
    app_strategy = "asyncio" =>
        /\ pc = "wait" => gathered = 1..Len(loop_tasks)
        /\ pc \in {"ret", "done"} =>
               \A i \in 1..Len(loop_tasks) : loop_tasks[i].state # "pending"

\* C3 as stated: the merged one-shot list is the static tasks followed by the
\* caller's tasks, so every static task is scheduled before every caller's task.
C3_StaticTasksFirst ==
    /\ Merged => tasks = TASKS \o ctor_tasks
    /\ \A i, j \in 1..Len(OneShotScheduled) :
           OneShotScheduled[i].src = "TASKS" /\ OneShotScheduled[j].src = "tasks" => i < j

\* C3 amended: the merged one-shot list is the caller's tasks followed by the
\* static tasks, each in its original order, and under either strategy every
\* caller's one-shot task is scheduled before every static one-shot task.
C3_CallerTasksFirst ==
    /\ Merged => tasks = ctor_tasks \o TASKS
    /\ IsPrefix(OneShotScheduled, ctor_tasks \o TASKS)
    /\ \A i, j \in 1..Len(OneShotScheduled) :
           OneShotScheduled[i].src = "tasks" /\ OneShotScheduled[j].src = "TASKS" => i < j

\* a caller's task and a static task have both been scheduled
C3_Witness ==
    \E i, j \in 1..Len(OneShotScheduled) :
        OneShotScheduled[i].src = "tasks" /\ OneShotScheduled[j].src = "TASKS"

\* word occurs in topic: some run of consecutive characters of topic is word
Contains(topic, word) ==
    \E k \in 0..Len(topic) :
        /\ k + Len(word) <= Len(topic)
        /\ \A j \in 1..Len(word) : topic[k + j] = word[j]

\* the topics of a binding map that a filter (None or a list of words) lets through
Matching(topics, include) ==
    {t \in topics :
        IsNone(include) \/ \E k \in 1..Len(Value(include)) : Contains(t, Value(include)[k])}

\* the bindings are final
Bound == pc # "start"

\* C4: with no dynamic bindings and a filter that is not None, the bindings put
\* into nats_config['listen_topics_callbacks'] are exactly the declared topics
\* that contain at least one word of the filter, each with its declared handler.
C4_FilterKeepsMatchingTopics ==
    (Bound /\ subscribe_topics_and_callbacks = EmptyDict /\ ~IsNone(listen_topic_only_if_include))
        => listen_topics_callbacks =
               Some([t \in Matching(DOMAIN declared, listen_topic_only_if_include) |-> declared[t]])

\* a filter has kept one declared topic and dropped another
C4_Witness ==
    /\ Bound
    /\ subscribe_topics_and_callbacks = EmptyDict
    /\ ~IsNone(listen_topic_only_if_include)
    /\ DOMAIN Value(listen_topics_callbacks) # {}
    /\ DOMAIN declared \ DOMAIN Value(listen_topics_callbacks) # {}

\* the handler a topic is bound to after the merge
MergedHandler(t) ==
    IF t \in DOMAIN subscribe_topics_and_callbacks
    THEN subscribe_topics_and_callbacks[t] ELSE declared[t]

\* C5: from the initialisation of the bus client on, the topics registered with
\* the bus are the filtered final bindings; a request on a topic that passes the
\* filter is answered by that topic's handler ('foo' -> 2, 'bar' -> 3 in the
\* test) and a request on a topic the filter removed ('start') is not delivered.
C5_OnlyFilteredTopicsSubscribed ==
    pc \notin {"start", "nats_init"} =>
        LET final == Matching(DOMAIN declared \cup DOMAIN subscribe_topics_and_callbacks,
                              listen_topic_only_if_include)
        IN  /\ subscribed = DOMAIN Value(listen_topics_callbacks)
            /\ subscribed = final
            /\ ~IsNone(response) =>
                   LET r == Value(response) IN
                   /\ r.topic \in final => r.delivered /\ r.data = MergedHandler(r.topic)
                   /\ r.topic \notin final => ~r.delivered
                   /\ (/\ declared = TestStatic
                       /\ subscribe_topics_and_callbacks = EmptyDict
                       /\ listen_topic_only_if_include = TestInclude)
                          => /\ r.topic = foo => r.delivered /\ r.data = 2
                             /\ r.topic = bar => r.delivered /\ r.data = 3
                             /\ r.topic = start => ~r.delivered

\* the test: handlers for 'start', 'foo', 'bar', filter ['foo', 'bar'], a request on 'start'
C5_Witness ==
    /\ declared = TestStatic
    /\ subscribe_topics_and_callbacks = EmptyDict
    /\ listen_topic_only_if_include = TestInclude
    /\ subscribed = {foo, bar}
    /\ ~IsNone(response)
    /\ Value(response).topic = start
    /\ ~Value(response).delivered

\* C6: with a filter of None the final bindings have the topics of the static
\* and of the dynamic map, none removed; a topic of the dynamic map has the
\* dynamic handler and every other topic its static handler.
C6_MergeDynamicWins ==
    (Bound /\ IsNone(listen_topic_only_if_include)) =>
        /\ ~IsNone(listen_topics_callbacks)
        /\ LET final == Value(listen_topics_callbacks) IN
           /\ DOMAIN final = DOMAIN declared \cup DOMAIN subscribe_topics_and_callbacks
           /\ \A t \in DOMAIN subscribe_topics_and_callbacks :
                  final[t] = subscribe_topics_and_callbacks[t]
           /\ \A t \in DOMAIN declared \ DOMAIN subscribe_topics_and_callbacks :
                  final[t] = declared[t]

\* a topic bound in both maps and a topic bound in the static map only, no filter
C6_Witness ==
    /\ Bound
    /\ IsNone(listen_topic_only_if_include)
    /\ DOMAIN declared \cap DOMAIN subscribe_topics_and_callbacks # {}
    /\ DOMAIN declared \ DOMAIN subscribe_topics_and_callbacks # {}

\* every callable given to the application as a task
AllCallables ==
    {ctor_tasks[i] : i \in 1..Len(ctor_tasks)} \cup {TASKS[i] : i \in 1..Len(TASKS)}
        \cup {Flatten(INTERVAL_TASKS)[i] : i \in 1..Len(Flatten(INTERVAL_TASKS))}

\* some task has the wrong mode for the strategy
ModeMismatch ==
    \/ app_strategy = "asyncio" /\ \E c \in AllCallables : ~c.coro
    \/ app_strategy = "sync" /\ \E c \in AllCallables : c.coro

\* _start_tasks has passed its loops or returned
PastScheduling == pc \in {"a_http", "a_run", "wait", "s_http", "ret", "done"}

\* C7: with a task of the wrong mode for the strategy ('asyncio': not a coroutine
\* function, 'sync': a coroutine function), one-shot or interval, _start_tasks
\* never gets past its loops, startup can only end with a configuration error,
\* and no step of startup follows the error.
C7_ModeMismatchIsAnError ==
    ModeMismatch =>
        /\ ~PastScheduling
        /\ ~ENABLED Startup => pc = "failed" /\ error \in ConfigurationErrors
        /\ pc = "failed" => error \in ConfigurationErrors /\ ~ENABLED Startup

\* startup has ended with a configuration error under each strategy
C7_Witness ==
    /\ ModeMismatch
    /\ pc = "failed"
    /\ error \in ConfigurationErrors
    /\ Len(Scheduled) > 0

\* C8: under 'asyncio' the failure of one unit on the loop is not turned into a
\* failure of the whole: the wait of line 191 never ends with a unit's error,
\* and startup has not failed while a unit has failed and a sibling is pending.
C8_UnitFailureStaysLocal ==
    app_strategy = "asyncio" =>
        /\ error # "UnitError"
        /\ (/\ \E i \in 1..Len(loop_tasks) : loop_tasks[i].state = "failed"
            /\ \E i \in 1..Len(loop_tasks) : loop_tasks[i].state = "pending") => pc # "failed"

\* the callables _start_tasks has to launch, in the order of its loops
ToLaunch == tasks \o Flatten(interval_tasks)

\* C9: under 'sync' the pause follows the initialisation of the bus client and
\* precedes every thread; the threads are launched one per task in the order of
\* the loops, none twice and none skipped; the HTTP listener is started only
\* when all of them are launched; _start_tasks then returns whatever the state
\* of the threads.
C9_SyncSequence ==
    app_strategy = "sync" =>
        /\ slept => pc \notin {"start", "nats_init", "merge_tasks", "start_tasks"}
        /\ threads # <<>> => slept
        /\ IsPrefix(Targets(threads), ctor_tasks \o TASKS \o Flatten(INTERVAL_TASKS))
        /\ pc \in {"s_http", "ret", "done"} =>
               /\ Targets(threads) = ToLaunch
               /\ Len(threads) = Len(ctor_tasks) + Len(TASKS) + Len(Flatten(INTERVAL_TASKS))
        /\ http_started => http_server /\ pc \in {"ret", "done"}
        /\ pc \in {"ret", "done"} => http_started = http_server
        /\ pc = "s_http" => ENABLED SyncHttp
        /\ pc = "ret" => ENABLED StartReturn
        /\ loop_tasks = <<>>

\* start() has returned with the listener started while a launched thread still runs
C9_Witness ==
    /\ app_strategy = "sync"
    /\ pc = "done"
    /\ http_started
    /\ Len(threads) >= 2
    /\ Len(threads) = Len(ToLaunch)
    /\ \E i \in 1..Len(threads) : threads[i].state = "running"

\* no subscription is left and no task is declared
EmptyApplication ==
    /\ ~IsNone(listen_topics_callbacks)
    /\ DOMAIN Value(listen_topics_callbacks) = {}
    /\ ctor_tasks = <<>>
    /\ TASKS = <<>>
    /\ INTERVAL_TASKS = <<>>

\* C10: with no subscription (none declared, or all removed by the filter) and no
\* task of either kind, startup under 'asyncio' and 'sync' raises no error, ends
\* in the wait or with the return of start(), creates no unit and no thread for a
\* task, and starts the HTTP listener exactly when one is configured.
C10_EmptyStartup ==
    (EmptyApplication /\ app_strategy \in {"asyncio", "sync"}) =>
        /\ error = "none"
        /\ pc # "failed"
        /\ subscribed = {}
        /\ OrchestratorUnits = {}
        /\ threads = <<>>
        /\ http_started => http_server
        /\ pc \in {"a_run", "wait", "ret", "done"} => http_started = http_server
        /\ ~ENABLED Startup => pc \in {"wait", "done"}

\* an empty application has completed startup
C10_Witness ==
    /\ EmptyApplication
    /\ declared # EmptyDict
    /\ app_strategy \in {"asyncio", "sync"}
    /\ pc \in {"wait", "done"}
    /\ http_started

\* the value of a digit character
DigitValue(ch) == CHOOSE d \in 0..9 : DigitChars[d + 1] = ch

RECURSIVE ParseInt(_)
\* int(token) of a non-empty run of digits
ParseInt(token) ==
    IF Len(token) = 1 THEN DigitValue(token[1])
    ELSE 10 * ParseInt(SubSeq(token, 1, Len(token) - 1)) + DigitValue(token[Len(token)])

RECURSIVE NumDigits(_)
NumDigits(n) == IF n < 10 THEN 1 ELSE 1 + NumDigits(n \div 10)

\* token is the decimal numeral of n, an integer of 1..1000000
IsRandomToken(token, n) ==
    /\ n \in RandMin..RandMax
    /\ Len(token) = NumDigits(n)
    /\ \A i \in 1..Len(token) : \E d \in 0..9 : DigitChars[d + 1] = token[i]
    /\ token[1] # "0"
    /\ ParseInt(token) = n

\* the characters of s from position a to position b
Slice(s, a, b) == [i \in 1..(b + 1 - a) |-> s[a + i - 1]]

\* id is name + '__' + hostToken + '__' + randomToken for the environment and the draws
IsDerivedId(id, name, host, drawn) ==
    /\ Len(drawn) = (IF IsNone(host) THEN 2 ELSE 1)
    /\ LET last == drawn[Len(drawn)]
           hostLen == IF IsNone(host) THEN Len(NonDockerEnv) + NumDigits(drawn[1])
                      ELSE Len(Value(host))
           p1 == Len(name)
           p2 == p1 + 2 + hostLen
       IN  /\ Len(id) = p2 + 2 + NumDigits(last)
           /\ Len(id) > 0
           /\ Slice(id, 1, p1) = name
           /\ Slice(id, p1 + 1, p1 + 2) = <<"_", "_">>
           /\ Slice(id, p2 + 1, p2 + 2) = <<"_", "_">>
           /\ IsRandomToken(Slice(id, p2 + 3, Len(id)), last)
           /\ IF IsNone(host)
              THEN /\ Slice(id, p1 + 3, p1 + 2 + Len(NonDockerEnv)) = NonDockerEnv
                   /\ IsRandomToken(Slice(id, p1 + 3 + Len(NonDockerEnv), p2), drawn[1])
              ELSE Slice(id, p1 + 3, p2) = Value(host)

Constructed == pc # "new"

C11_State ==
    Constructed =>
        /\ ~IsNone(client_id)
        /\ env_client_id = client_id
        /\ ~IsNone(client_id_arg) => client_id = client_id_arg /\ draws = <<>>
        /\ IsNone(client_id_arg) =>
               IsDerivedId(Value(client_id), service_name, hostname, draws)

\* C11: an explicit client_id is stored unchanged in nats_config['client_id'] and
\* in the CLIENT_ID environment variable; without one the id is non-empty and is
\* serviceName + '__' + hostToken + '__' + randomToken, hostToken being HOSTNAME
\* when it is set and 'non_docker_env_' + an integer of 1..1000000 otherwise,
\* randomToken an integer of 1..1000000; once set by __init__ it never changes.
C11_IdentityResolution ==
    /\ []C11_State
    /\ [][Constructed => client_id' = client_id /\ env_client_id' = env_client_id]_vars

\* an id derived without HOSTNAME from the two ends of the random range
C11_Witness ==
    /\ pc = "merge_tasks"
    /\ IsNone(client_id_arg)
    /\ IsNone(hostname)
    /\ draws = <<RandMax, RandMin>>
    /\ Len(Value(client_id)) = Len(Svc) + 2 + Len(NonDockerEnv) + 7 + 2 + 1

\* a task unit, a thread or the HTTP listener has been started
Started == Scheduled # <<>> \/ http_started \/ start_thread_arg # <<>>

\* C12: nothing is started before NATSClient.__init__ has returned successfully
\* (the bus client then holds the final bindings); when it raises, its error is
\* the outcome of _start and no task, thread or listener is started then or later.
C12_ConnectBeforeSchedule ==
    /\ Started =>
           /\ bus_reachable
           /\ pc \notin {"new", "start", "nats_init"}
           /\ subscribed = DOMAIN Value(listen_topics_callbacks)
    /\ (~bus_reachable /\ pc \notin {"new", "start", "nats_init"}) =>
           /\ pc = "failed"
           /\ error = "ConnectionError"
           /\ subscribed = {}
           /\ ~Started
           /\ ~ENABLED Startup

\* the initialisation of the bus client has raised, with tasks waiting to be started
C12_Witness ==
    /\ pc = "failed"
    /\ error = "ConnectionError"
    /\ tasks # <<>>
    /\ INTERVAL_TASKS # <<>>
    /\ http_server
    /\ ~Started

\* the bindings _start has to hand to the bus client
FinalBindings ==
    [t \in Matching(DOMAIN declared \cup DOMAIN subscribe_topics_and_callbacks,
                    listen_topic_only_if_include) |-> MergedHandler(t)]

C13_State ==
    /\ pc \in {"new", "start"} => IsNone(listen_topics_callbacks)
    /\ pc \notin {"new", "start"} => listen_topics_callbacks = Some(FinalBindings)

\* C13: nats_config['listen_topics_callbacks'] is None from __init__ until _start
\* has merged and filtered the bindings, holds them when NATSClient.__init__ is
\* called, and is not changed once it is set.
C13_CallbacksFinalisedOnce ==
    /\ []C13_State
    /\ [][~IsNone(listen_topics_callbacks) => listen_topics_callbacks' = listen_topics_callbacks]_vars

\* the bus client was initialised with bindings that were merged and filtered
C13_Witness ==
    /\ pc = "merge_tasks"
    /\ DOMAIN declared = {start, foo, bar}
    /\ DOMAIN Value(listen_topics_callbacks) = {foo, bar}
    /\ Value(listen_topics_callbacks)[foo] = DynamicHandler(foo)
    /\ subscribed = {foo, bar}

\* the callables handed to loop.create_task by _start_tasks, in order
Created == Targets(SelectSeq(loop_tasks, LAMBDA u : u.owner # "bus"))

\* the place of an interval task: the position of its key in the iteration over
\* self.INTERVAL_TASKS and its position in the list of that key
KeyPosition(c) ==
    CHOOSE i \in 1..Len(INTERVAL_TASKS) : INTERVAL_TASKS[i].interval = c.n \div 10
ListPosition(c) == c.n % 10
IntervalBefore(a, b) ==
    \/ KeyPosition(a) < KeyPosition(b)
    \/ KeyPosition(a) = KeyPosition(b) /\ ListPosition(a) < ListPosition(b)

NumIntervalTasks == Len(Flatten(INTERVAL_TASKS))

\* C14: under 'asyncio' with valid callables the units are created in the order
\* of the merged one-shot list, then the interval tasks by key iteration order
\* and list order, each task once; the HTTP listener is started only when all of
\* them are created and before the wait begins.
C14_AsyncioOrder ==
    (app_strategy = "asyncio" /\ ~ModeMismatch) =>
        /\ \A i \in 1..Len(Created) :
               /\ i <= Len(ctor_tasks) + Len(TASKS) =>
                      Created[i] = (ctor_tasks \o TASKS)[i] /\ (Merged => Created[i] = tasks[i])
               /\ i > Len(ctor_tasks) + Len(TASKS) => Created[i].src = "INTERVAL_TASKS"
        /\ \A i, j \in 1..Len(Created) :
               /\ i # j => Created[i] # Created[j]
               /\ (i < j /\ Created[i].src = "INTERVAL_TASKS") =>
                      Created[j].src = "INTERVAL_TASKS" /\ IntervalBefore(Created[i], Created[j])
        /\ pc \in {"a_http", "a_run", "wait"} =>
               Len(Created) = Len(ctor_tasks) + Len(TASKS) + NumIntervalTasks
        /\ http_started => http_server /\ pc \in {"a_run", "wait"}
        /\ pc \in {"a_run", "wait"} => http_started = http_server
        /\ threads = <<>>

\* the wait has begun after two one-shot tasks and the tasks of two intervals,
\* the key iterated first being the larger one and holding two tasks
C14_Witness ==
    /\ app_strategy = "asyncio"
    /\ pc = "wait"
    /\ http_started
    /\ Len(tasks) >= 2
    /\ Len(INTERVAL_TASKS) = 2
    /\ INTERVAL_TASKS[1].interval > INTERVAL_TASKS[2].interval
    /\ Len(INTERVAL_TASKS[1].tasks) = 2
    /\ Len(Created) = Len(tasks) + NumIntervalTasks

\* C15: when _start_tasks has raised a configuration error, under either strategy
\* and for either kind of task, the HTTP listener has not been started, no step
\* of startup follows (so it is not started later), and the wait is not entered.
C15_NoListenerOnFailedStartup ==
    error \in ConfigurationErrors =>
        /\ ~http_started
        /\ pc = "failed"
        /\ ~ENABLED Startup

\* an interval task was rejected under 'asyncio' with a listener configured
C15_Witness ==
    /\ app_strategy = "asyncio"
    /\ http_server
    /\ error = "InitializingIntevalTaskError"
    /\ pc = "failed"

C16_State ==
    Constructed =>
        /\ app_strategy \in Strategies
        /\ client_strategy = app_strategy
        /\ "num_of_queues" \in nats_keys <=> app_strategy = "sync"
        /\ ~(OrchestratorUnits # {} /\ threads # <<>>)
        /\ OrchestratorUnits # {} => app_strategy = "asyncio"
        /\ threads # <<>> => app_strategy = "sync"

\* C16: the strategy chosen by __init__ is never changed; nats_config['client_strategy']
\* always equals the strategy _start_tasks dispatches on; one startup never both
\* creates units on the loop and launches threads; nats_config has the key
\* 'num_of_queues' exactly when the strategy is 'sync'.
C16_StrategyFixedAndExclusive ==
    /\ []C16_State
    /\ [][Constructed => /\ app_strategy' = app_strategy
                         /\ client_strategy' = client_strategy
                         /\ nats_keys' = nats_keys]_vars

\* a 'sync' application has launched a thread
C16_Witness ==
    /\ app_strategy = "sync"
    /\ client_strategy = "sync"
    /\ "num_of_queues" \in nats_keys
    /\ threads # <<>>

\* the callable whose check made _start_tasks raise: the one after those launched
Offending == ToLaunch[Len(Scheduled) + 1]

\* C17: under 'asyncio' and under 'sync' alike, a configuration error raised for
\* a one-shot task is InitializingTaskError and one raised for an interval task
\* is InitializingIntevalTaskError.
C17_ErrorKindMatchesTask ==
    error \in ConfigurationErrors =>
        /\ Offending.src \in {"tasks", "TASKS"} => error = "InitializingTaskError"
        /\ Offending.src = "INTERVAL_TASKS" => error = "InitializingIntevalTaskError"

\* C18: start_thread is called by start() only when _start has returned normally
\* and no HTTP server is configured, once, with the None that _start returned;
\* the steps of startup are never run again after they have begun, and no thread
\* runs anything but a task.
C18_StartupOnCallerOnce ==
    /\ []( /\ start_thread_arg # <<>> =>
                  pc = "done" /\ ~http_server /\ start_thread_arg = <<"None">>
           /\ pc = "done" => start_thread_arg = (IF http_server THEN <<>> ELSE <<"None">>)
           /\ \A i \in 1..Len(threads) : threads[i].target \in AllCallables )
    /\ [][ /\ pc # "start" => pc' # "start"
           /\ pc \in {"done", "failed"} => pc' = pc
           /\ start_thread_arg # <<>> => start_thread_arg' = start_thread_arg ]_vars

\* start() has called start_thread after a startup that launched a task thread
C18_Witness ==
    /\ ~http_server
    /\ pc = "done"
    /\ threads # <<>>
    /\ start_thread_arg = <<"None">>

\* C19: with a strategy other than 'asyncio' and 'sync' the bus client is
\* initialised with the filtered bindings, but _start_tasks creates no unit,
\* launches no thread, starts no listener, does not pause, raises no error
\* whatever the modes of the callables are, and startup ends with the return
\* of start().
C19_UnknownStrategyStartsNothing ==
    app_strategy \notin {"asyncio", "sync"} =>
        /\ error = "none"
        /\ pc # "failed"
        /\ Scheduled = <<>>
        /\ ~http_started
        /\ ~slept
        /\ pc \notin {"start", "nats_init"} =>
               /\ listen_topics_callbacks = Some(FinalBindings)
               /\ subscribed = DOMAIN FinalBindings
        /\ ~ENABLED Startup => pc = "done"

\* start() has returned under 'async' with a listener configured and tasks of
\* both modes, the bus client holding the filtered topics
C19_Witness ==
    /\ app_strategy = "async"
    /\ pc = "done"
    /\ http_server
    /\ subscribed = {foo, bar}
    /\ \E c \in AllCallables : c.coro
    /\ \E c \in AllCallables : ~c.coro

C20_State ==
    /\ pc # "start" =>
           /\ Some(SUBSCRIPTIONS) = listen_topics_callbacks
           /\ SUBSCRIPTIONS = FinalBindings
    /\ Merged => tasks = ctor_tasks \o TASKS /\ interval_tasks = INTERVAL_TASKS

\* C20: after the try block of _start, self.SUBSCRIPTIONS is the mapping stored in
\* nats_config['listen_topics_callbacks'] (the declared bindings overlaid with the
\* dynamic ones, without the topics the filter removed); self.tasks becomes the
\* merged list; subscribe_topics_and_callbacks, TASKS and the caller's list of
\* tasks are never changed.
C20_RegistryMutatedInPlace ==
    /\ []C20_State
    /\ [][ /\ subscribe_topics_and_callbacks' = subscribe_topics_and_callbacks
           /\ TASKS' = TASKS
           /\ ctor_tasks' = ctor_tasks
           /\ INTERVAL_TASKS' = INTERVAL_TASKS ]_vars

\* the registry has lost a declared topic and holds a dynamic binding in place
\* of a declared one, and self.tasks is no longer the caller's list
C20_Witness ==
    /\ Merged
    /\ DOMAIN declared \ DOMAIN SUBSCRIPTIONS # {}
    /\ \E t \in DOMAIN SUBSCRIPTIONS \cap DOMAIN declared :
           /\ SUBSCRIPTIONS[t] # declared[t]
           /\ SUBSCRIPTIONS[t] = subscribe_topics_and_callbacks[t]
    /\ tasks # ctor_tasks
    /\ TASKS # <<>>
====
